---- MODULE Spec2Model ----
(***************************************************************************)
(* Tech Lab audit scripts: scripts/daily_live_audit.py and                 *)
(* scripts/weekly_lab_audit.py.                                            *)
(*                                                                         *)
(* One run of either script is modelled: configuration, the paginated      *)
(* fetch generator notion_query_database, the per-record loop body of      *)
(* main (field extraction, session reconstruction, daily rows / weekly     *)
(* day aggregates) and the two file writes.                                *)
(*                                                                         *)
(* Conventions.                                                            *)
(*   - A Python value that may be None is a sequence of length <= 1:       *)
(*     None is <<>>, a value x is <<x>>.  A table cell holding the empty   *)
(*     string is <<>> as well.                                             *)
(*   - A timestamp string is a record [kind, wall, zone, off]: kind is     *)
(*     "none" (Python None), "empty" (""), "bad" (does not parse) or       *)
(*     "iso"; wall is the wall-clock reading written in the string, in     *)
(*     seconds since 00:00 of day 0; zone says whether the string carries  *)
(*     no offset ("naive"), a "Z" suffix, or a numeric offset off.         *)
(*   - A calendar date is its day number; a datetime is the pair of its    *)
(*     UTC instant and of the local wall-clock reading.                    *)
(***************************************************************************)
EXTENDS Integers, Sequences, FiniteSets, TLC

VARIABLES
    mode,           \* "daily" or "weekly": which script runs
    tz,             \* UTC offset of the process's local zone, seconds
    env_ok,         \* NOTION_TOKEN and NOTION_DB are both set
    pc,             \* position of main
    exit_code,      \* None while running, <<status>> once the process ended
    start, end,     \* weekly window (day numbers)
    day_keys, agg,  \* weekly: ordered keys and the aggregation map
    clean_rows, open_sessions, over_30,   \* daily accumulators
    gen,            \* position of the generator notion_query_database
    body_cursor,    \* body["start_cursor"]; None while the key is unset
    j,              \* the response being iterated
    pos,            \* results of j already yielded
    requests,       \* every request posted, in order: its start_cursor and
                    \* the response it got
    yielded,        \* every record the generator yielded, in order
    csv_file, html_file,  \* None until written, then the content
    domain          \* which family of records the Record Source holds

vars == <<mode, tz, env_ok, pc, exit_code, start, end, day_keys, agg,
          clean_rows, open_sessions, over_30, gen, body_cursor, j, pos,
          requests, yielded, csv_file, html_file, domain>>

-----------------------------------------------------------------------------
(* Bounds of the model. *)

MaxRecords == 2
MaxFieldRecords == 1
MaxPages == 2

(* Program and library constants. *)

SecondsPerMinute == 60
OverThreshold == 30
SecondsPerHour == 3600
SecondsPerDay == 86400

None == <<>>
Some(x) == <<x>>

Max(a, b) == IF a >= b THEN a ELSE b

P_FIRST == "FIRST NAME"
P_LAST == "LAST NAME"
P_CONSOLE == "CONSOLE #"
P_IN == "DATE OF ENTRY"
P_OUT == "DATE OF EXIT"

-----------------------------------------------------------------------------
(* Timestamp strings and date properties. *)

NoStr == [kind |-> "none", wall |-> 0, zone |-> "naive", off |-> 0]
EmptyStr == [kind |-> "empty", wall |-> 0, zone |-> "naive", off |-> 0]
BadStr == [kind |-> "bad", wall |-> 0, zone |-> "naive", off |-> 0]
Iso(w, z, o) == [kind |-> "iso", wall |-> w, zone |-> z, off |-> o]

\* Python truthiness of a string-or-None.
Falsy(s) == s.kind \in {"none", "empty"}

\* props.get(name): a property that is absent (or null) reads as None.
AbsentDate == [present |-> FALSE, date |-> None]
DateProp(d) == [present |-> TRUE, date |-> d]

safe_date_start(p) ==
    IF ~p.present THEN NoStr
    ELSE IF p.date = None THEN NoStr
    ELSE p.date[1]

\* datetime.fromisoformat after "Z" -> "+00:00"; a naive result is taken as
\* UTC; astimezone() then expresses the instant in the local zone.
parse_iso_to_local(s) ==
    IF Falsy(s) THEN None
    ELSE IF s.kind = "bad" THEN None
    ELSE LET offset == IF s.zone = "off" THEN s.off ELSE 0
             inst == s.wall - offset
         IN  Some([inst |-> inst, wall |-> inst + tz])

\* dt.date() of a local datetime.
LocalDate(dt) == dt.wall \div SecondsPerDay

\* strftime("%-I:%M %p")
Strftime12(dt) ==
    LET sod == dt.wall % SecondsPerDay
        h == sod \div SecondsPerHour
        m == (sod % SecondsPerHour) \div SecondsPerMinute
    IN  <<((h + 11) % 12) + 1, m, IF h < 12 THEN "AM" ELSE "PM">>

pretty_time(s) ==
    LET dt == parse_iso_to_local(s)
    IN  IF dt = None THEN <<>> ELSE Strftime12(dt[1])

minutes_between(a_iso, b_iso) ==
    LET a == parse_iso_to_local(a_iso)
        b == parse_iso_to_local(b_iso)
    IN  IF a = None \/ b = None THEN None
        ELSE Some(Max((b[1].inst - a[1].inst) \div SecondsPerMinute, 0))

-----------------------------------------------------------------------------
(* Text properties.  A property is [present, type, title, rich_text,       *)
(* select, multi_select]; title and rich_text are None or <<runs>>, a run  *)
(* is None (no plain_text key) or <<text>>; select is None or <<option>>,  *)
(* an option is None (no name key) or <<name>>; multi_select is None or    *)
(* <<names>>.                                                              *)

AbsentText == [present |-> FALSE, type |-> "", title |-> None,
               rich_text |-> None, select |-> None, multi_select |-> None]

\* props.get(name) or {}
PropOrEmpty(props, name) ==
    IF props[name].present THEN props[name] ELSE AbsentText

_first_text(arr) ==
    IF arr = None THEN ""
    ELSE IF arr[1] = <<>> THEN ""
    ELSE IF arr[1][1] = None THEN "" ELSE arr[1][1][1]

prop_title_text(props, name) ==
    _first_text(PropOrEmpty(props, name).title)

prop_rich_text(props, name) ==
    _first_text(PropOrEmpty(props, name).rich_text)

RECURSIVE Join(_)
Join(names) ==
    IF names = <<>> THEN ""
    ELSE IF Len(names) = 1 THEN names[1]
    ELSE names[1] \o ", " \o Join(Tail(names))

prop_select_name(props, name) ==
    LET p == PropOrEmpty(props, name)
    IN  IF p.type = "select"
        THEN IF p.select = None THEN ""
             ELSE IF p.select[1] = None THEN "" ELSE p.select[1][1]
        ELSE IF p.type = "multi_select"
        THEN IF p.multi_select = None THEN "" ELSE Join(p.multi_select[1])
        ELSE ""

prop_console_value(props, name) ==
    LET s == prop_select_name(props, name)
    IN  IF s # "" THEN s ELSE prop_rich_text(props, name)

prop_any_text(props, name) ==
    LET t == prop_title_text(props, name)
        r == prop_rich_text(props, name)
    IN  IF t # "" THEN t
        ELSE IF r # "" THEN r
        ELSE prop_select_name(props, name)

-----------------------------------------------------------------------------
(* The records the Record Source may return.  Each is the "properties"     *)
(* mapping of one result.                                                  *)

Title(runs) == [present |-> TRUE, type |-> "title", title |-> runs,
                rich_text |-> None, select |-> None, multi_select |-> None]
Rich(runs) == [present |-> TRUE, type |-> "rich_text", title |-> None,
               rich_text |-> runs, select |-> None, multi_select |-> None]
Select(opt) == [present |-> TRUE, type |-> "select", title |-> None,
                rich_text |-> None, select |-> opt, multi_select |-> None]

Text(s) == Some(<<Some(s)>>)

Props(first, last, console, pin, pout) ==
    (P_FIRST :> first) @@ (P_LAST :> last) @@ (P_CONSOLE :> console)
        @@ (P_IN :> pin) @@ (P_OUT :> pout)

DateOf(s) == DateProp(Some(s))

\* Entry timestamps: 14:00Z on day 0; 02:00 (no offset) on day 1, which is
\* still day 0 in a zone west of UTC; 23:30-05:00 on day 1, which is day 2
\* in UTC; 10:00Z on day 3.
EntryA == Iso(14 * SecondsPerHour, "Z", 0)
EntryB == Iso(SecondsPerDay + 2 * SecondsPerHour, "naive", 0)
EntryC == Iso(SecondsPerDay + 23 * SecondsPerHour + 1800, "off", -5 * SecondsPerHour)
EntryD == Iso(3 * SecondsPerDay + 10 * SecondsPerHour, "Z", 0)

\* Exit timestamps relative to EntryA: 30 minutes 59 seconds later, 31
\* minutes later (written with an offset), and one second earlier.
ExitA30 == Iso(14 * SecondsPerHour + 30 * SecondsPerMinute + 59, "Z", 0)
ExitA31 == Iso(9 * SecondsPerHour + 31 * SecondsPerMinute, "off", -5 * SecondsPerHour)
ExitBefore == Iso(14 * SecondsPerHour - 1, "naive", 0)

MissingEntries ==
    {AbsentDate, DateProp(None), DateOf(NoStr), DateOf(EmptyStr)}

Ann == Title(Text("Ann"))
Lee == Rich(Text("Lee"))
Console3 == Select(Some(Some("3")))

SessionRecords ==
    {Props(Ann, Lee, Console3, pin, AbsentDate) : pin \in MissingEntries}
    \cup {Props(Ann, Lee, Console3, DateOf(BadStr), pout) :
            pout \in {AbsentDate, DateOf(ExitA31)}}
    \cup {Props(Ann, Lee, Console3, DateOf(EntryA), pout) :
            pout \in {AbsentDate, DateOf(BadStr), DateOf(ExitA30),
                      DateOf(ExitA31), DateOf(ExitBefore)}}
    \cup {Props(Rich(Text("Bo")), Select(Some(Some("Kim"))), Rich(Text("7")),
                DateOf(pin), DateOf(ExitA31)) : pin \in {EntryB, EntryC, EntryD}}

\* Records that differ in the shape of one name field only: every mix of
\* title, rich_text and select / multi_select values for LAST NAME, and a
\* few for FIRST NAME.
TextProp(type, title, rich, select, multi) ==
    [present |-> TRUE, type |-> type, title |-> title, rich_text |-> rich,
     select |-> select, multi_select |-> multi]

TitleShapes ==
    {None, Some(<<>>), Some(<<None>>), Text(""), Text("T"),
     Some(<<Some(""), Some("U")>>)}
RichShapes == {None, Text(""), Text("R")}
SelectShapes ==
    {<<"select", s, None>> : s \in {None, Some(None), Some(Some("")), Some(Some("S"))}}
    \cup {<<"multi_select", None, m>> : m \in {None, Some(<<>>), Some(<<"A", "B">>)}}
    \cup {<<"rich_text", Some(Some("S")), None>>}

NameShapes ==
    {TextProp(sel[1], t, r, sel[2], sel[3]) :
        t \in TitleShapes, r \in RichShapes, sel \in SelectShapes}
    \cup {AbsentText}

FirstShapes ==
    {Ann, Rich(Text("Bo")), AbsentText,
     TextProp("title", Text(""), Text("R"), None, None)}

FieldRecords ==
    {Props(Ann, last, Console3, DateOf(EntryA), AbsentDate) : last \in NameShapes}
    \cup {Props(first, Lee, Console3, DateOf(EntryA), AbsentDate) :
            first \in FirstShapes}

Records == IF domain = "sessions" THEN SessionRecords ELSE FieldRecords
RecordCap == IF domain = "sessions" THEN MaxRecords ELSE MaxFieldRecords

TimeZones == {0, -5 * SecondsPerHour}
Windows == {<<0, 1>>, <<0, 0>>, <<2, 0>>}

-----------------------------------------------------------------------------
(* The run. *)

ZeroDay == [sessions |-> 0, completed |-> 0, open |-> 0, over30 |-> 0,
            minutes |-> 0]

Init ==
    /\ domain = "sessions"
    /\ mode \in {"daily", "weekly"}
    /\ tz \in TimeZones
    /\ env_ok \in BOOLEAN
    /\ \E w \in Windows :
          /\ start = (IF mode = "weekly" THEN w[1] ELSE 0)
          /\ end = (IF mode = "weekly" THEN w[2] ELSE 0)
    /\ pc = "start"
    /\ exit_code = None
    /\ day_keys = <<>>
    /\ agg = <<>>
    /\ clean_rows = <<>>
    /\ open_sessions = <<>>
    /\ over_30 = <<>>
    /\ gen = "request"
    /\ body_cursor = None
    /\ j = [page |-> 0, n |-> 0, has_more |-> FALSE, next_cursor |-> None]
    /\ pos = 0
    /\ requests = <<>>
    /\ yielded = <<>>
    /\ csv_file = None
    /\ html_file = None

\* A run whose Record Source holds the name-field records (daily script).
InitFields ==
    /\ domain = "fields"
    /\ mode = "daily"
    /\ tz = 0
    /\ env_ok = TRUE
    /\ start = 0
    /\ end = 0
    /\ pc = "start"
    /\ exit_code = None
    /\ day_keys = <<>>
    /\ agg = <<>>
    /\ clean_rows = <<>>
    /\ open_sessions = <<>>
    /\ over_30 = <<>>
    /\ gen = "request"
    /\ body_cursor = None
    /\ j = [page |-> 0, n |-> 0, has_more |-> FALSE, next_cursor |-> None]
    /\ pos = 0
    /\ requests = <<>>
    /\ yielded = <<>>
    /\ csv_file = None
    /\ html_file = None

\* die without the sys.exit: the message is printed and the caller goes on.
die_ReturnsNormally == UNCHANGED <<pc, exit_code>>

\* die(msg): print and sys.exit(1).
die ==
    /\ pc' = "exited"
    /\ exit_code' = Some(1)

\* The range without its + 1.
NumDays_OffByOne(s, e) == Max(e - s, 0)

\* range((end-start).days+1)
NumDays(s, e) == Max(e - s + 1, 0)

\* main up to the first pull from the generator.
Configure ==
    /\ pc = "start"
    /\ IF ~env_ok
       THEN /\ die
            /\ UNCHANGED <<day_keys, agg>>
       ELSE /\ pc' = "loop"
            /\ exit_code' = exit_code
            /\ IF mode = "weekly"
               THEN /\ day_keys' = [i \in 1..NumDays(start, end) |-> start + i - 1]
                    /\ agg' = [d \in {day_keys'[i] : i \in DOMAIN day_keys'} |-> ZeroDay]
               ELSE UNCHANGED <<day_keys, agg>>
    /\ UNCHANGED <<mode, tz, env_ok, start, end, clean_rows, open_sessions,
                   over_30, gen, body_cursor, j, pos, requests, yielded,
                   csv_file, html_file, domain>>

\* The page the Record Source serves for a start_cursor.
ServedPage(cursor) == IF cursor = None THEN 1 ELSE cursor[1]

Responses(cursor, nreq, nrec) ==
    {[page |-> ServedPage(cursor), n |-> n, has_more |-> more,
      next_cursor |-> IF more THEN Some(ServedPage(cursor) + 1) ELSE None] :
        n \in 0..(RecordCap - nrec),
        more \in {m \in BOOLEAN : m => nreq < MaxPages}}

\* The cursor is never put into the request body.
NextCursor_Forgotten(resp) == None

\* body["start_cursor"] = j.get("next_cursor")
NextCursor(resp) == resp.next_cursor

\* One turn of the generator's while loop up to the for loop: post the
\* request, die on a non-success response, else take the response.
Request ==
    /\ pc = "loop"
    /\ gen = "request"
    /\ \E ok \in BOOLEAN :
          IF ~ok
          THEN /\ requests' = Append(requests, [cursor |-> body_cursor,
                                                ok |-> FALSE, resp |-> j])
               /\ die
               /\ UNCHANGED <<gen, j, pos>>
          ELSE /\ \E r \in Responses(body_cursor, Len(requests) + 1, Len(yielded)) :
                     /\ j' = r
                     /\ requests' = Append(requests, [cursor |-> body_cursor,
                                                      ok |-> TRUE, resp |-> r])
               /\ pos' = 0
               /\ gen' = "iterating"
               /\ UNCHANGED <<pc, exit_code>>
    /\ UNCHANGED <<mode, tz, env_ok, start, end, day_keys, agg, clean_rows,
                   open_sessions, over_30, body_cursor, yielded, csv_file,
                   html_file, domain>>

\* The for loop over j["results"] is exhausted: stop unless has_more, else
\* set the cursor and go round the while loop.
EndOfPage ==
    /\ pc = "loop"
    /\ gen = "iterating"
    /\ pos = j.n
    /\ IF ~j.has_more
       THEN /\ gen' = "exhausted"
            /\ pc' = "csv"
            /\ UNCHANGED body_cursor
       ELSE /\ body_cursor' = NextCursor(j)
            /\ gen' = "request"
            /\ UNCHANGED pc
    /\ UNCHANGED <<mode, tz, env_ok, exit_code, start, end, day_keys, agg,
                   clean_rows, open_sessions, over_30, j, pos, requests,
                   yielded, csv_file, html_file, domain>>

\* What the generator yields next: result pos + 1 of the page being iterated.
NextId == <<j.page, pos + 1>>

Yield(props) ==
    /\ yielded' = Append(yielded, [id |-> NextId, props |-> props])
    /\ pos' = pos + 1

Row(first, last, console, time_in, time_out, minutes) ==
    ("First Name" :> first) @@ ("Last Name" :> last) @@ ("Console #" :> console)
        @@ ("Time In" :> time_in) @@ ("Time Out" :> time_out)
        @@ ("Minutes" :> minutes)

\* "" if minutes is None else minutes
MinutesCell(minutes) == IF minutes = None THEN <<>> ELSE <<minutes[1]>>

\* if time_in_iso is None: continue
Dropped_NoneOnly(time_in_iso) == time_in_iso.kind = "none"

\* if not time_in_iso: continue
Dropped(time_in_iso) == Falsy(time_in_iso)

\* The first-name cell of a daily row.
FirstName(props) == prop_title_text(props, P_FIRST)

\* Rich text tried before the title.
LastName_RichFirst(props) ==
    LET t == prop_title_text(props, P_LAST)
        r == prop_rich_text(props, P_LAST)
    IN  IF r # "" THEN r
        ELSE IF t # "" THEN t
        ELSE prop_select_name(props, P_LAST)

\* The last-name cell of a daily row.
LastName(props) == prop_any_text(props, P_LAST)

\* if minutes >= 30
IsOver_AtLeast(minutes) == minutes[1] >= OverThreshold

\* if minutes > 30
IsOver(minutes) == minutes[1] > OverThreshold

\* One iteration of the daily main loop on the record the generator yields.
DailyBody ==
    /\ mode = "daily"
    /\ pc = "loop"
    /\ gen = "iterating"
    /\ pos < j.n
    /\ \E props \in Records :
          LET first == FirstName(props)
              last == LastName(props)
              console == prop_console_value(props, P_CONSOLE)
              time_in_iso == safe_date_start(props[P_IN])
              time_out_iso == safe_date_start(props[P_OUT])
              minutes == minutes_between(time_in_iso, time_out_iso)
          IN  /\ Yield(props)
              /\ IF Dropped(time_in_iso)
                 THEN UNCHANGED <<clean_rows, open_sessions, over_30>>
                 ELSE /\ open_sessions' =
                            IF minutes = None
                            THEN Append(open_sessions,
                                        [first |-> first, last |-> last])
                            ELSE open_sessions
                      /\ over_30' =
                            IF minutes # None /\ IsOver(minutes)
                            THEN Append(over_30,
                                        <<first \o " " \o last, minutes[1]>>)
                            ELSE over_30
                      /\ clean_rows' =
                            Append(clean_rows,
                                   Row(first, last, console,
                                       pretty_time(time_in_iso),
                                       pretty_time(time_out_iso),
                                       MinutesCell(minutes)))
    /\ UNCHANGED <<mode, tz, env_ok, pc, exit_code, start, end, day_keys, agg,
                   gen, body_cursor, j, requests, csv_file, html_file, domain>>

\* day not in agg
InWindow(day) == day \in DOMAIN agg

\* The minutes of a completed session are not added.
Accumulate_MinutesForgotten(a, mins) ==
    IF mins = None
    THEN [a EXCEPT !.sessions = @ + 1, !.open = @ + 1]
    ELSE [a EXCEPT !.sessions = @ + 1,
                   !.completed = @ + 1,
                   !.over30 = IF mins[1] > OverThreshold THEN @ + 1 ELSE @]

\* The counters of one day after a session of `mins` minutes (None: open).
Accumulate(a, mins) ==
    IF mins = None
    THEN [a EXCEPT !.sessions = @ + 1, !.open = @ + 1]
    ELSE [a EXCEPT !.sessions = @ + 1,
                   !.completed = @ + 1,
                   !.minutes = @ + mins[1],
                   !.over30 = IF IsOver(mins) THEN @ + 1 ELSE @]

\* One iteration of the weekly main loop.  parse_iso_to_local(pin_iso) is
\* None for a string that does not parse, and None.date() raises
\* AttributeError: the process ends with a traceback and status 1.
WeeklyBody ==
    /\ mode = "weekly"
    /\ pc = "loop"
    /\ gen = "iterating"
    /\ pos < j.n
    /\ \E props \in Records :
          LET pin_iso == safe_date_start(props[P_IN])
              pout_iso == safe_date_start(props[P_OUT])
              dt == parse_iso_to_local(pin_iso)
          IN  /\ Yield(props)
              /\ IF Dropped(pin_iso)
                 THEN UNCHANGED <<agg, pc, exit_code>>
                 ELSE IF dt = None
                 THEN /\ pc' = "crashed"
                      /\ exit_code' = Some(1)
                      /\ UNCHANGED agg
                 ELSE LET day == LocalDate(dt[1])
                      IN  /\ UNCHANGED <<pc, exit_code>>
                          /\ IF ~InWindow(day)
                             THEN UNCHANGED agg
                             ELSE agg' = [agg EXCEPT ![day] =
                                     Accumulate(@, minutes_between(pin_iso, pout_iso))]
    /\ UNCHANGED <<mode, tz, env_ok, start, end, day_keys, clean_rows,
                   open_sessions, over_30, gen, body_cursor, j, requests,
                   csv_file, html_file, domain>>

\* The rows of the weekly table, one per key of day_keys in that order.
WeekRows ==
    [i \in 1..Len(day_keys) |->
        LET a == agg[day_keys[i]]
        IN  <<day_keys[i], a.sessions, a.completed, a.open, a.over30, a.minutes>>]

WriteCSV ==
    /\ pc = "csv"
    /\ csv_file' = Some(IF mode = "daily" THEN clean_rows ELSE WeekRows)
    /\ pc' = "html"
    /\ UNCHANGED <<mode, tz, env_ok, exit_code, start, end, day_keys, agg,
                   clean_rows, open_sessions, over_30, gen, body_cursor, j,
                   pos, requests, yielded, html_file, domain>>

\* The summary line of the daily dashboard.
Summary ==
    [total |-> Len(clean_rows), open |-> Len(open_sessions),
     over |-> Len(over_30)]

WriteHTML ==
    /\ pc = "html"
    /\ html_file' =
          Some(IF mode = "daily"
               THEN [rows |-> clean_rows, sub |-> Summary]
               ELSE [rows |-> WeekRows, sub |-> [total |-> Len(day_keys)]])
    /\ pc' = "exited"
    /\ exit_code' = Some(0)
    /\ UNCHANGED <<mode, tz, env_ok, start, end, day_keys, agg, clean_rows,
                   open_sessions, over_30, gen, body_cursor, j, pos, requests,
                   yielded, csv_file, domain>>

Next ==
    \/ Configure
    \/ Request
    \/ EndOfPage
    \/ DailyBody
    \/ WeeklyBody
    \/ WriteCSV
    \/ WriteHTML

Spec == Init /\ [][Next]_vars

NextFields ==
    \/ Configure
    \/ Request
    \/ EndOfPage
    \/ DailyBody
    \/ WriteCSV
    \/ WriteHTML

SpecFields == InitFields /\ [][NextFields]_vars

-----------------------------------------------------------------------------
(* Vocabulary of the properties. *)

\* The entry timestamp of a record is missing: the entry field is absent,
\* its date sub-structure is absent, or its start value is absent or empty.
MissingEntry(props) ==
    \/ ~props[P_IN].present
    \/ props[P_IN].date = None
    \/ props[P_IN].date[1].kind \in {"none", "empty"}

\* The yielded records that are not dropped, in fetch order.
Kept == SelectSeq(yielded, LAMBDA y : ~MissingEntry(y.props))

EntryTime(props) == parse_iso_to_local(safe_date_start(props[P_IN]))
ExitTime(props) == parse_iso_to_local(safe_date_start(props[P_OUT]))

\* The session of the record falls on local calendar day d.
FallsOn(props, d) ==
    /\ ~MissingEntry(props)
    /\ EntryTime(props) # None
    /\ LocalDate(EntryTime(props)[1]) = d

AllOk == \A i \in DOMAIN requests : requests[i].ok

RECURSIVE SumOver(_, _)
SumOver(S, f) ==
    IF S = {} THEN 0
    ELSE LET x == CHOOSE y \in S : TRUE
         IN  f[x] + SumOver(S \ {x}, f)

-----------------------------------------------------------------------------
\* C1: record-level anomalies never abort the batch: a run ends with a
\* non-zero status only when the configuration is missing or a fetch
\* response was non-success.
C1_OnlyConfigOrFetchAborts ==
    (exit_code # None /\ exit_code # Some(0))
        => (~env_ok \/ ~AllOk)

\* C2: once any response is non-success the run has ended with a non-zero
\* status and neither file is written; a file is written only after the
\* fetch sequence was consumed to its end.
C2_FetchErrorWritesNothing ==
    /\ ~AllOk => /\ pc = "exited"
                 /\ exit_code # None /\ exit_code # Some(0)
                 /\ csv_file = None /\ html_file = None
    /\ (csv_file # None \/ html_file # None)
          => /\ AllOk
             /\ gen = "exhausted"
             /\ Len(requests) > 0
             /\ ~requests[Len(requests)].resp.has_more
             /\ pos = j.n

C2_Witness ==
    /\ Len(requests) = 2
    /\ requests[1].ok /\ ~requests[2].ok
    /\ Len(yielded) >= 1
    /\ pc = "exited"

\* C3: a step that consumes a record whose entry timestamp is missing
\* leaves the daily rows, the open list, the over-30 list and every
\* counter of every day unchanged.
C3_MissingEntryExcluded ==
    [][(/\ Len(yielded') = Len(yielded) + 1
        /\ MissingEntry(yielded'[Len(yielded')].props))
          => /\ clean_rows' = clean_rows
             /\ open_sessions' = open_sessions
             /\ over_30' = over_30
             /\ agg' = agg]_vars

C3_Witness ==
    /\ mode = "daily"
    /\ Len(yielded) = 2
    /\ ~MissingEntry(yielded[1].props)
    /\ MissingEntry(yielded[2].props)
    /\ yielded[2].props[P_IN].present
    /\ Len(clean_rows) = 1

\* C4: in weekly mode with start <= end the aggregation map has exactly
\* end - start + 1 entries, one per day of [start, end], listed and emitted
\* in ascending order; a day on which no session falls is all zero; and a
\* record whose local entry date is outside [start, end] changes no counter.
C4_WindowState ==
    (mode = "weekly" /\ env_ok /\ pc # "start" /\ start <= end)
        => /\ DOMAIN agg = start..end
           /\ Cardinality(DOMAIN agg) = end - start + 1
           /\ Len(day_keys) = end - start + 1
           /\ \A i \in DOMAIN day_keys : day_keys[i] = start + i - 1
           /\ \A d \in DOMAIN agg :
                 (\A i \in DOMAIN yielded : ~FallsOn(yielded[i].props, d))
                     => agg[d] = ZeroDay
           /\ csv_file # None
                 => /\ Len(csv_file[1]) = Len(day_keys)
                    /\ \A i \in DOMAIN day_keys : csv_file[1][i][1] = day_keys[i]

C4_OutsideStep ==
    (/\ mode = "weekly"
     /\ Len(yielded') = Len(yielded) + 1
     /\ \A d \in start..end : ~FallsOn(yielded'[Len(yielded')].props, d))
        => agg' = agg

C4_WeeklyWindow == [](C4_WindowState) /\ [][C4_OutsideStep]_vars

C4_Witness ==
    /\ mode = "weekly"
    /\ start = 0 /\ end = 1
    /\ csv_file # None
    /\ Len(yielded) = 2
    /\ FallsOn(yielded[1].props, 0)
    /\ EntryTime(yielded[2].props) # None
    /\ LocalDate(EntryTime(yielded[2].props)[1]) > end
    /\ agg[1] = ZeroDay

\* C5: in weekly mode the counters of every day are those of the sessions
\* bucketed on it: sessions counts them, open those without a duration,
\* completed the others, minutes sums the durations of the completed ones
\* and over30 counts the completed ones longer than 30 minutes; hence
\* sessions = completed + open and over30 <= completed.
C5_Counters ==
    mode = "weekly" =>
        \A d \in DOMAIN agg :
            LET S == {i \in DOMAIN yielded : FallsOn(yielded[i].props, d)}
                dur(i) == minutes_between(safe_date_start(yielded[i].props[P_IN]),
                                          safe_date_start(yielded[i].props[P_OUT]))
                O == {i \in S : dur(i) = None}
                C == S \ O
                mins(i) == dur(i)[1]
            IN  /\ agg[d].sessions = Cardinality(S)
                /\ agg[d].open = Cardinality(O)
                /\ agg[d].completed = Cardinality(S) - Cardinality(O)
                /\ agg[d].minutes = SumOver(C, [i \in C |-> mins(i)])
                /\ agg[d].over30 = Cardinality({i \in C : mins(i) > 30})
                /\ agg[d].sessions = agg[d].completed + agg[d].open
                /\ agg[d].over30 <= agg[d].completed

C5_Witness ==
    /\ mode = "weekly"
    /\ start = 0 /\ end = 0
    /\ DOMAIN agg = {0}
    /\ agg[0].sessions = 2
    /\ agg[0].open = 1
    /\ agg[0].completed = 1
    /\ agg[0].minutes = 31
    /\ agg[0].over30 = 1

\* C6: for every session (every daily row with the record it was made
\* from), the duration is absent exactly when the exit time is absent;
\* otherwise it is floor((exit - entry) seconds / 60) clamped at 0.
C6_DurationAbsentIffNoExit ==
    mode = "daily" =>
        \A k \in DOMAIN clean_rows :
            LET props == Kept[k].props
                minutes == clean_rows[k]["Minutes"]
            IN  /\ (minutes = <<>>) <=> (ExitTime(props) = None)
                /\ ExitTime(props) # None =>
                      /\ minutes[1] >= 0
                      /\ minutes[1] =
                            Max((ExitTime(props)[1].inst - EntryTime(props)[1].inst)
                                    \div 60, 0)

\* C7: in daily mode every row of an open session (no duration) has an
\* empty Time Out column and an empty Minutes column.
C7_OpenRowsBlank ==
    mode = "daily" =>
        \A k \in DOMAIN clean_rows :
            clean_rows[k]["Minutes"] = <<>> => clean_rows[k]["Time Out"] = <<>>

\* C8: in daily mode, after any prefix of the fetch, the rows are the
\* non-dropped records in fetch order, the open list has one entry per row
\* with empty Minutes, the over-30 list one entry per row with Minutes > 30
\* (never a row with empty Minutes), and the written summary carries these
\* counts.
C8_RowsAndSummary ==
    mode = "daily" =>
        LET OpenRows == {k \in DOMAIN clean_rows : clean_rows[k]["Minutes"] = <<>>}
            OverRows == {k \in DOMAIN clean_rows \ OpenRows :
                            clean_rows[k]["Minutes"][1] > 30}
        IN  /\ Len(clean_rows) = Len(Kept)
            /\ \A k \in DOMAIN clean_rows :
                  LET props == Kept[k].props
                  IN  clean_rows[k] =
                         Row(FirstName(props), LastName(props),
                             prop_console_value(props, P_CONSOLE),
                             pretty_time(safe_date_start(props[P_IN])),
                             pretty_time(safe_date_start(props[P_OUT])),
                             MinutesCell(minutes_between(
                                 safe_date_start(props[P_IN]),
                                 safe_date_start(props[P_OUT]))))
            /\ Len(open_sessions) = Cardinality(OpenRows)
            /\ Len(over_30) = Cardinality(OverRows)
            /\ OpenRows \cap OverRows = {}
            /\ csv_file # None => csv_file[1] = clean_rows
            /\ html_file # None =>
                  /\ html_file[1].rows = clean_rows
                  /\ html_file[1].sub =
                        [total |-> Len(Kept), open |-> Cardinality(OpenRows),
                         over |-> Cardinality(OverRows)]

C8_Witness ==
    /\ mode = "daily"
    /\ html_file # None
    /\ Len(clean_rows) = 2
    /\ clean_rows[1]["Minutes"] = <<31>>
    /\ clean_rows[2]["Minutes"] = <<>>
    /\ clean_rows[2]["Time In"] # <<>>
    /\ Len(over_30) = 1

\* The first run's plain text of a title or rich-text value.
FirstRun(arr) ==
    IF arr # None /\ Len(arr[1]) > 0 /\ arr[1][1] # None THEN arr[1][1][1] ELSE ""

\* The option name of a select value, the comma-joined names of a
\* multi-select value.
OptionNames(p) ==
    CASE p.type = "select" /\ p.select # None /\ p.select[1] # None -> p.select[1][1]
      [] p.type = "multi_select" /\ p.multi_select # None -> Join(p.multi_select[1])
      [] OTHER -> ""

\* The first non-empty of title, rich text, select; empty when all are.
FirstNonEmpty(p) ==
    LET c == <<FirstRun(p.title), FirstRun(p.rich_text), OptionNames(p)>>
        filled == {i \in 1..3 : c[i] # ""}
    IN  IF ~p.present \/ filled = {} THEN ""
        ELSE c[CHOOSE i \in filled : \A i2 \in filled : i <= i2]

RECURSIVE PageIds(_)
PageIds(k) ==
    IF k = 0 THEN <<>>
    ELSE PageIds(k - 1) \o
         [m \in 1..(IF k < Len(requests) THEN requests[k].resp.n ELSE pos) |-> <<k, m>>]

C10_Pagination ==
    AllOk =>
        /\ [i \in DOMAIN yielded |-> yielded[i].id] = PageIds(Len(requests))
        /\ \A k \in DOMAIN requests :
              /\ requests[k].cursor =
                    (IF k = 1 THEN None ELSE requests[k - 1].resp.next_cursor)
              /\ k < Len(requests) => requests[k].resp.has_more
        /\ gen = "exhausted" =>
              /\ ~requests[Len(requests)].resp.has_more
              /\ pos = requests[Len(requests)].resp.n
        /\ gen = "request" /\ Len(requests) > 0 =>
              /\ requests[Len(requests)].resp.has_more
              /\ pos = requests[Len(requests)].resp.n

C10_Witness ==
    /\ gen = "exhausted"
    /\ Len(requests) = 2
    /\ requests[2].cursor = Some(2)
    /\ [i \in DOMAIN yielded |-> yielded[i].id] = << <<1, 1>>, <<2, 1>> >>

====
